---------------------------- MODULE Spec2Model ----------------------------
(***************************************************************************)
(* A model of egui-twemoji (src/src/lib.rs, src/src/exposed.rs): the       *)
(* grapheme segmenter, the per-context segment cache, the EmojiLabel       *)
(* builder and its two layout entry points, show and layout_in_ui.         *)
(*                                                                         *)
(* A string is a sequence of grapheme clusters (what                       *)
(* UnicodeSegmentation::graphemes yields); a grapheme is an atom.          *)
(***************************************************************************)
EXTENDS Integers, Sequences, FiniteSets, TLC

\* Longest input string of the segmenter specification, in graphemes.
MaxLen == 3

\* Graphemes no twemoji asset exists for.
Plain == {"a", "b"}
\* Graphemes of the emoji class: the keys the asset crate may map.
Pictograms == {"E1", "E2"}
Graphemes == Plain \cup Pictograms

RECURSIVE SeqsUpTo(_, _)
SeqsUpTo(S, n) ==
    IF n = 0 THEN {<<>>}
    ELSE LET shorter == SeqsUpTo(S, n - 1)
         IN  shorter \cup {Append(s, x) : s \in {t \in shorter : Len(t) = n - 1}, x \in S}

Strings == SeqsUpTo(Graphemes, MaxLen)

\* Option<T>: None is the empty sequence, Some(v) the one-element sequence.
None == <<>>
Some(v) == <<v>>

\* The label texts the demo-like callers of the cache specifications use:
\* text around a pictogram, pictograms only, and the empty string.
LabelTexts == {<<"a", "E1", "b">>, <<"E1", "E2">>, <<>>}

\* f32::INFINITY: above every finite width of the model.
Infinity == 999
\* usize::MAX, LayoutJob::default()'s wrap.max_rows: no limit on the rows.
UsizeMax == 9999
\* The counters of loads and of segmenter runs stop counting here.
CountCap == 2
\* How many callers share the context in the interleaving specification.
MaxCallers == 2

VARIABLES
    assets,     \* the pictograms twemoji_assets' from_emoji maps to an asset
    input,      \* segmenter specification: the RichText handed to segment_text
    result,     \* segmenter specification: what segment_text returned
    segDone,    \* segmenter specification: segment_text has returned
    store,      \* ctx.data: Id -> Option<LabelState>, the context's temp storage
    loads,      \* per Id, the segment sequences LabelState::load has returned
    hits,       \* per Id, how many loads the store answered (up to CountCap)
    segRuns,    \* per text, how many times from_text ran segment_text (up to CountCap)
    label,      \* the EmojiLabel a caller is building: Option<EmojiLabel>
    out,        \* what the last show / layout_in_ui call produced
    calls       \* interleaved calls: per caller, the call it is in the middle of

segVars == <<input, result, segDone>>
cacheVars == <<store, loads, hits, segRuns>>
vars == <<assets, input, result, segDone, store, loads, hits, segRuns, label, out, calls>>

(***************************************************************************)
(* exposed.rs: RichText seen through ExposedRichText.  Of the sixteen      *)
(* fields the model keeps the text and two of the style flags; the others  *)
(* are carried the same way by the struct-update syntax.                   *)
(***************************************************************************)
ExposedRichText == [text : Strings, strong : BOOLEAN, italics : BOOLEAN]

\* RichText::new(text): every style attribute at its default.
RichTextNew(text) == [text |-> text, strong |-> FALSE, italics |-> FALSE]

\* impl From<RichText> for ExposedRichText / From<ExposedRichText> for RichText:
\* a transmute between two structs of the same fields, each field kept.
ToExposed(value) ==
    [text |-> value.text, strong |-> value.strong, italics |-> value.italics]
FromExposed(value) ==
    [text |-> value.text, strong |-> value.strong, italics |-> value.italics]

\* Self { text: text.into(), ..old.clone().into() }
new_keep_properties(text, old) == [ToExposed(old) EXCEPT !.text = text]

(***************************************************************************)
(* lib.rs: TextSegment, is_emoji, segment_text                             *)
(***************************************************************************)
Text(rich) == [kind |-> "Text", rich |-> rich]
\* Emoji(String): the string holds the graphemes pushed into it.
Emoji(str) == [kind |-> "Emoji", emoji |-> str]

\* twemoji_assets' {Svg,Png}TwemojiAsset::from_emoji: the asset of a string that
\* is exactly one mapped pictogram.
from_emoji(str) ==
    IF Len(str) = 1 /\ str[1] \in assets THEN Some(str[1]) ELSE None

is_emoji(grapheme) == from_emoji(<<grapheme>>) # None

\* A bug: the accumulated text is dropped instead of flushed.
FlushDropped(acc, in) == [acc EXCEPT !.text = <<>>]

\* if !text.is_empty() { result.push(Text(new_keep_properties(text, input))) }
\* with the text.clear() of the loop body.
Flush(acc, in) ==
    IF acc.text # <<>>
    THEN [result |-> Append(acc.result,
                            Text(FromExposed(new_keep_properties(acc.text, in)))),
          text |-> <<>>]
    ELSE acc

\* A bug: the pending text is merged into the emoji's string, not flushed.
PushEmojiMerged(acc, grapheme, in) ==
    [result |-> Append(acc.result, Emoji(Append(acc.text, grapheme))),
     text |-> <<>>]

\* The is_emoji branch of the loop body: flush, then push the Emoji segment.
PushEmoji(acc, grapheme, in) ==
    LET flushed == Flush(acc, in)
    IN  [flushed EXCEPT !.result = Append(@, Emoji(<<grapheme>>))]

\* A bug: every plain grapheme is pushed as a Text segment of its own.
PushPlainEach(acc, grapheme, in) ==
    [acc EXCEPT !.result =
        Append(@, Text(FromExposed(new_keep_properties(<<grapheme>>, in))))]

\* The else branch of the loop body: text.push_str(grapheme).
PushPlain(acc, grapheme, in) == [acc EXCEPT !.text = Append(@, grapheme)]

\* A bug: the emoji is pushed before the text that precedes it is flushed.
SegStepEmojiFirst(acc, grapheme, in) ==
    IF is_emoji(grapheme)
    THEN [acc EXCEPT !.result = Append(@, Emoji(<<grapheme>>))]
    ELSE PushPlain(acc, grapheme, in)

\* One iteration of the for loop over the graphemes.
SegStep(acc, grapheme, in) ==
    IF is_emoji(grapheme)
    THEN PushEmoji(acc, grapheme, in)
    ELSE PushPlain(acc, grapheme, in)

RECURSIVE SegLoop(_, _, _)
SegLoop(acc, rest, in) ==
    IF rest = <<>> THEN acc
    ELSE SegLoop(SegStep(acc, Head(rest), in), Tail(rest), in)

segment_text(in) ==
    Flush(SegLoop([result |-> <<>>, text |-> <<>>], in.text, in), in).result

(***************************************************************************)
(* lib.rs: LabelState and the context's temp storage                       *)
(***************************************************************************)
\* egui::Id::new(self.text()): a hash of the text, one Id per text.
Id(text) == text

from_text(text) == [segments |-> segment_text(text), is_saved |-> FALSE]

\* d.get_temp(id)
get_temp(st, id) == st[id]

\* A bug: the stored state is ignored and the text segmented again.
loadFresh(st, id, text) == from_text(text)

\* d.get_temp(id).unwrap_or_else(|| Self::from_text(text.clone()))
load(st, id, text) ==
    IF get_temp(st, id) # None THEN get_temp(st, id)[1] ELSE from_text(text)

\* A bug: the state is not written to the store.
saveLost(st, id, state) == st

\* d.insert_temp(id, self)
save(st, id, state) == [st EXCEPT ![id] = Some(state)]

\* let mut state = load(..); if !state.is_saved { state.is_saved = true;
\* state.clone().save(..) }: the state the call goes on with, and the store.
LoadAndSave(st, id, text) ==
    LET state == load(st, id, text)
    IN  IF ~state.is_saved
        THEN [state |-> [state EXCEPT !.is_saved = TRUE],
              store |-> save(st, id, [state EXCEPT !.is_saved = TRUE])]
        ELSE [state |-> state, store |-> st]

Bump(n) == IF n < CountCap THEN n + 1 ELSE n

\* The cache's part of a call, with the record of what load returned and of
\* whether from_text (the unwrap_or_else closure) ran.
CacheStep(text) ==
    LET id == Id(text.text)
        hit == get_temp(store, id) # None
    IN  /\ store' = LoadAndSave(store, id, text).store
        /\ loads' = [loads EXCEPT ![id] = @ \cup {load(store, id, text).segments}]
        /\ hits' = [hits EXCEPT ![id] = IF hit THEN Bump(@) ELSE @]
        /\ segRuns' = [segRuns EXCEPT ![id] = IF hit THEN @ ELSE Bump(@)]

(***************************************************************************)
(* lib.rs: the EmojiLabel builder                                          *)
(***************************************************************************)
\* egui::Sense as its three flags.
SenseOf(click, drag, focusable) ==
    [click |-> click, drag |-> drag, focusable |-> focusable]
SenseHover == SenseOf(FALSE, FALSE, FALSE)
SenseFocusableNoninteractive == SenseOf(FALSE, FALSE, TRUE)
SenseClick == SenseOf(TRUE, FALSE, TRUE)
SenseClickAndDrag == SenseOf(TRUE, TRUE, TRUE)
SenseUnion(a, b) ==
    SenseOf(a.click \/ b.click, a.drag \/ b.drag, a.focusable \/ b.focusable)

EmojiLabelNew(text) ==
    [text |-> text, wrap |-> None, truncate |-> FALSE,
     sense |-> None, selectable |-> None]

\* A bug: wrap leaves the truncate flag as it was.
wrapKeepsTruncate(self, w) == [self EXCEPT !.wrap = Some(w)]

wrap(self, w) == [self EXCEPT !.wrap = Some(w), !.truncate = FALSE]

truncate(self, t) == [self EXCEPT !.wrap = None, !.truncate = t]

selectable(self, s) == [self EXCEPT !.selectable = Some(s)]

sense(self, s) == [self EXCEPT !.sense = Some(s)]

(***************************************************************************)
(* The host Ui a call is given: where its cursor stands, the body font's   *)
(* height, the width left, and the layout and style settings the calls     *)
(* read.                                                                   *)
(***************************************************************************)
DefaultUi ==
    [origin |-> <<0, 0>>, font_height |-> 1,
     available_width |-> Infinity, before_wrap |-> Infinity,
     wrap_text |-> FALSE, ltr |-> TRUE, main_wrap |-> FALSE,
     selectable_labels |-> TRUE, screen_reader |-> FALSE, touch_screen |-> FALSE]

\* The same Ui with its cursor at the screen's origin or inside a panel.
FlowUis == {[DefaultUi EXCEPT !.origin = o] : o \in {<<0, 0>>, <<2, 1>>}}

\* Uis of every wrap setting, layout and finite or infinite width.
WrapUis ==
    {[DefaultUi EXCEPT !.wrap_text = wt, !.main_wrap = mw,
                       !.available_width = aw,
                       !.before_wrap = IF aw = Infinity THEN aw ELSE aw - 1] :
        wt \in BOOLEAN, mw \in BOOLEAN, aw \in {4, Infinity}}

(***************************************************************************)
(* lib.rs: get_source_for_emoji, empty_response, EmojiLabel::show          *)
(***************************************************************************)
\* Some(ImageSource::Bytes { uri: "{emoji}.svg", bytes }) or None.
get_source_for_emoji(emoji) ==
    IF from_emoji(emoji) = None THEN None
    ELSE Some([uri |-> emoji, bytes |-> from_emoji(emoji)[1]])

Min(a, b) == IF a < b THEN a ELSE b
Max(a, b) == IF a > b THEN a ELSE b

Rect(min, max) == [min |-> min, max |-> max]
\* egui::Rect::ZERO: the point at the origin.
RectZero == Rect(<<0, 0>>, <<0, 0>>)
\* egui::Rect::union, as Response's |= applies it to the rect.
RectUnion(a, b) ==
    Rect(<<Min(a.min[1], b.min[1]), Min(a.min[2], b.min[2])>>,
         <<Max(a.max[1], b.max[1]), Max(a.max[2], b.max[2])>>)

\* empty_response(ctx): the response show starts from (its rect).
empty_response == [rect |-> RectZero]

\* The widget the flow container places at the cursor: item spacing is 0, the
\* cursor moves right by the widget's width.  Line breaks are the container's.
PlaceAt(cursor, size) ==
    Rect(cursor, <<cursor[1] + size[1], cursor[2] + size[2]>>)

\* The indices of the Emoji segments whose asset the store does not hold now.
Missing(segments) ==
    {i \in 1..Len(segments) :
        segments[i].kind = "Emoji" /\ get_source_for_emoji(segments[i].emoji) = None}

\* A bug: a failed lookup still places the transparent placeholder label.
ShowEmojiAlways(acc, i, emoji, ui) ==
    LET image_rect == PlaceAt(acc.cursor, <<ui.font_height, ui.font_height>>)
    IN  [placed |-> Append(acc.placed,
                           [index |-> i, kind |-> "placeholder", rect |-> image_rect]),
         rect |-> RectUnion(acc.rect, image_rect),
         cursor |-> <<image_rect.max[1], acc.cursor[2]>>]

\* TextSegment::Emoji(emoji) => { let Some(source) = .. else { continue };
\* ui.add(Image ..fit_to_exact_size(font_height, font_height)); resp |= ui.put(
\* image_rect, transparent Label) }
ShowEmoji(acc, i, emoji, ui) ==
    IF get_source_for_emoji(emoji) = None THEN acc
    ELSE LET image_rect == PlaceAt(acc.cursor, <<ui.font_height, ui.font_height>>)
         IN  [placed |-> Append(acc.placed,
                                [index |-> i, kind |-> "placeholder", rect |-> image_rect]),
              rect |-> RectUnion(acc.rect, image_rect),
              cursor |-> <<image_rect.max[1], acc.cursor[2]>>]

\* TextSegment::Text(text) => resp |= ui.add(Label::new(text.clone())...)
ShowText(acc, i, text, ui) ==
    LET r == PlaceAt(acc.cursor, <<Len(text.text), ui.font_height>>)
    IN  [placed |-> Append(acc.placed, [index |-> i, kind |-> "label", rect |-> r]),
         rect |-> RectUnion(acc.rect, r),
         cursor |-> <<r.max[1], acc.cursor[2]>>]

RECURSIVE ShowLoop(_, _, _, _)
ShowLoop(acc, segments, i, ui) ==
    IF i > Len(segments) THEN acc
    ELSE ShowLoop(IF segments[i].kind = "Text"
                  THEN ShowText(acc, i, segments[i].rich, ui)
                  ELSE ShowEmoji(acc, i, segments[i].emoji, ui),
                  segments, i + 1, ui)

\* show from font_height on: what the call produces from the state it holds.
ShowOut(self, ui, state) ==
    LET resp == ShowLoop([placed |-> <<>>, rect |-> empty_response.rect,
                          cursor |-> ui.origin],
                         state.segments, 1, ui)
    IN  [call |-> "show", text |-> self.text, segments |-> state.segments,
         missing |-> Missing(state.segments),
         placed |-> resp.placed, rect |-> resp.rect]

\* EmojiLabel::show(self, ui)
Show(self, ui) ==
    /\ CacheStep(self.text)
    /\ out' = ShowOut(self, ui,
                      LoadAndSave(store, Id(self.text.text), self.text).state)

(***************************************************************************)
(* lib.rs: EmojiLabel::layout_in_ui                                        *)
(***************************************************************************)
\* The sense of the response: the label's or the default, and the selection's.
LayoutSense(self, ui) ==
    LET sel == IF self.selectable # None THEN self.selectable[1]
               ELSE ui.selectable_labels
        base == IF self.sense # None THEN self.sense[1]
                ELSE IF ui.screen_reader THEN SenseFocusableNoninteractive
                     ELSE SenseHover
        select_sense == [(IF ~ui.touch_screen THEN SenseClickAndDrag ELSE SenseClick)
                            EXCEPT !.focusable = FALSE]
    IN  IF sel THEN SenseUnion(base, select_sense) ELSE base

\* One section of the LayoutJob per segment, in segment order: a Text segment
\* by RichText::append_to (its own format), an Emoji segment by
\* layout_job.append(emoji, -0.0, TextFormat::default()).
JobSection(i, seg) ==
    IF seg.kind = "Text"
    THEN [index |-> i, text |-> seg.rich.text, leading_space |-> 0,
          strong |-> seg.rich.strong, italics |-> seg.rich.italics]
    ELSE [index |-> i, text |-> seg.emoji, leading_space |-> 0,
          strong |-> FALSE, italics |-> FALSE]

JobSections(segments) == [i \in 1..Len(segments) |-> JobSection(i, segments[i])]

\* A bug: an unset wrap counts as false, whatever the Ui's wrap_text() says.
EffectiveWrapUnsetFalse(self, ui) ==
    ~self.truncate /\ (IF self.wrap # None THEN self.wrap[1] ELSE FALSE)

\* let wrap = !truncate && self.wrap.unwrap_or_else(|| ui.wrap_text());
EffectiveWrap(self, ui) ==
    ~self.truncate /\ (IF self.wrap # None THEN self.wrap[1] ELSE ui.wrap_text)

\* The wrap settings of the job, by the branch taken.
JobWrap(self, ui) ==
    IF /\ EffectiveWrap(self, ui)
       /\ ui.ltr
       /\ ui.main_wrap
       /\ ui.available_width # Infinity
    THEN [branch |-> "rows", max_width |-> ui.available_width,
          max_rows |-> UsizeMax, break_anywhere |-> FALSE,
          first_row_indentation |-> Some(ui.available_width - ui.before_wrap)]
    ELSE IF self.truncate
    THEN [branch |-> "block", max_width |-> ui.available_width,
          max_rows |-> 1, break_anywhere |-> TRUE,
          first_row_indentation |-> None]
    ELSE IF EffectiveWrap(self, ui)
    THEN [branch |-> "block", max_width |-> ui.available_width,
          max_rows |-> UsizeMax, break_anywhere |-> FALSE,
          first_row_indentation |-> None]
    ELSE [branch |-> "block", max_width |-> Infinity,
          max_rows |-> UsizeMax, break_anywhere |-> FALSE,
          first_row_indentation |-> None]

\* if let Some(first_section) = layout_job.sections.first_mut() {
\*     first_section.leading_space = first_row_indentation; }
IndentFirst(sections, indentation) ==
    IF indentation = None \/ sections = <<>> THEN sections
    ELSE [sections EXCEPT ![1].leading_space = indentation[1]]

\* layout_in_ui from font_height on: what the call produces from the state
\* it holds.
LayoutInUiOut(self, ui, state) ==
    LET jw == JobWrap(self, ui)
    IN  [call |-> "layout_in_ui", text |-> self.text,
         segments |-> state.segments,
         missing |-> Missing(state.segments),
         sections |-> IndentFirst(JobSections(state.segments),
                                  jw.first_row_indentation),
         wrap |-> jw, sense |-> LayoutSense(self, ui),
         self |-> [wrap |-> self.wrap, truncate |-> self.truncate],
         ui |-> [wrap_text |-> ui.wrap_text,
                 available_width |-> ui.available_width]]

\* EmojiLabel::layout_in_ui(self, ui)
LayoutInUi(self, ui) ==
    /\ CacheStep(self.text)
    /\ out' = LayoutInUiOut(self, ui,
                            LoadAndSave(store, Id(self.text.text), self.text).state)

(***************************************************************************)
(* The segmenter specification: segment_text applied to every RichText     *)
(* within the bounds, under every asset table.                             *)
(***************************************************************************)
SegInit ==
    /\ assets \in SUBSET Pictograms
    /\ input \in ExposedRichText
    /\ result = <<>>
    /\ segDone = FALSE
    /\ store = [id \in LabelTexts |-> None]
    /\ loads = [id \in LabelTexts |-> {}]
    /\ hits = [id \in LabelTexts |-> 0]
    /\ segRuns = [id \in LabelTexts |-> 0]
    /\ label = None
    /\ out = [call |-> "none"]
    /\ calls = [c \in 1..MaxCallers |-> None]

Segment ==
    /\ ~segDone
    /\ result' = segment_text(input)
    /\ segDone' = TRUE
    /\ UNCHANGED <<assets, input, cacheVars, label, out, calls>>

SegNext == Segment

SegSpec == SegInit /\ [][SegNext]_vars


(***************************************************************************)
(* The cache specification: show and layout_in_ui called one after the     *)
(* other on one context, with labels as EmojiLabel::new makes them from a  *)
(* plain or a strong RichText.  The asset table is the crate's and stays.  *)
(***************************************************************************)
Init ==
    /\ assets = Pictograms
    /\ input = RichTextNew(<<>>)
    /\ result = <<>>
    /\ segDone = FALSE
    /\ store = [id \in LabelTexts |-> None]
    /\ loads = [id \in LabelTexts |-> {}]
    /\ hits = [id \in LabelTexts |-> 0]
    /\ segRuns = [id \in LabelTexts |-> 0]
    /\ label = None
    /\ out = [call |-> "none"]
    /\ calls = [c \in 1..MaxCallers |-> None]

\* RichText::new(text), or RichText::new(text).strong()
LabelRichTexts ==
    {[RichTextNew(t) EXCEPT !.strong = s] : t \in LabelTexts, s \in BOOLEAN}

ShowCall ==
    \E text \in LabelRichTexts, ui \in FlowUis :
        /\ Show(EmojiLabelNew(text), ui)
        /\ UNCHANGED <<assets, segVars, label, calls>>

LayoutInUiCall ==
    \E text \in LabelRichTexts :
        /\ LayoutInUi(EmojiLabelNew(text), DefaultUi)
        /\ UNCHANGED <<assets, segVars, label, calls>>

Next == ShowCall \/ LayoutInUiCall

Spec == Init /\ [][Next]_vars

(***************************************************************************)
(* The asset specification: the same calls, and an asset store that may    *)
(* lose an asset between segmentation and layout (the case the             *)
(* let-else of show provides for).                                         *)
(***************************************************************************)
AssetRemoved ==
    /\ \E e \in assets : assets' = assets \ {e}
    /\ UNCHANGED <<segVars, cacheVars, label, out, calls>>

AssetNext == ShowCall \/ LayoutInUiCall \/ AssetRemoved

AssetSpec == Init /\ [][AssetNext]_vars

(***************************************************************************)
(* The builder specification: a caller builds one label with any sequence  *)
(* of builder calls and hands it to show or layout_in_ui in any Ui.        *)
(***************************************************************************)
BuilderText == [RichTextNew(<<"a", "E1", "b">>) EXCEPT !.strong = TRUE]

NewCall ==
    /\ label' = Some(EmojiLabelNew(BuilderText))
    /\ UNCHANGED <<assets, segVars, cacheVars, out, calls>>

WrapCall(w) ==
    /\ label # None
    /\ label' = Some(wrap(label[1], w))
    /\ UNCHANGED <<assets, segVars, cacheVars, out, calls>>

TruncateCall(t) ==
    /\ label # None
    /\ label' = Some(truncate(label[1], t))
    /\ UNCHANGED <<assets, segVars, cacheVars, out, calls>>

SelectableCall(s) ==
    /\ label # None
    /\ label' = Some(selectable(label[1], s))
    /\ UNCHANGED <<assets, segVars, cacheVars, out, calls>>

SenseCall(s) ==
    /\ label # None
    /\ label' = Some(sense(label[1], s))
    /\ UNCHANGED <<assets, segVars, cacheVars, out, calls>>

\* show and layout_in_ui take self by value: the label is gone after the call.
ShowBuilt ==
    /\ label # None
    /\ \E ui \in WrapUis : Show(label[1], ui)
    /\ label' = None
    /\ UNCHANGED <<assets, segVars, calls>>

LayoutInUiBuilt ==
    /\ label # None
    /\ \E ui \in WrapUis : LayoutInUi(label[1], ui)
    /\ label' = None
    /\ UNCHANGED <<assets, segVars, calls>>

BuilderNext ==
    \/ NewCall
    \/ \E w \in BOOLEAN : WrapCall(w)
    \/ \E t \in BOOLEAN : TruncateCall(t)
    \/ \E s \in BOOLEAN : SelectableCall(s)
    \/ \E s \in {SenseHover, SenseClick} : SenseCall(s)
    \/ ShowBuilt
    \/ LayoutInUiBuilt

BuilderSpec == Init /\ [][BuilderNext]_vars

(***************************************************************************)
(* The interleaving specification: several callers share the context.  A   *)
(* call takes the lock of ctx.data twice, in load and in save, so another  *)
(* caller's load or save may fall between the two.  The first step of a    *)
(* call is its load; the second is its conditional save with the layout    *)
(* that follows, which reads nothing shared.                               *)
(***************************************************************************)
CallKinds == {"show", "layout_in_ui"}

\* The labels of the interleaved callers: one text plain and strong, and a
\* second text.
ConcRichTexts ==
    {RichTextNew(<<"a", "E1", "b">>),
     [RichTextNew(<<"a", "E1", "b">>) EXCEPT !.strong = TRUE],
     RichTextNew(<<"E1", "E2">>)}

\* let id = egui::Id::new(self.text()); let mut state = LabelState::load(..);
CallLoad(c) ==
    /\ calls[c] = None
    /\ \E kind \in CallKinds, text \in ConcRichTexts :
          LET id == Id(text.text)
              hit == get_temp(store, id) # None
              state == load(store, id, text)
          IN  /\ calls' = [calls EXCEPT ![c] =
                              Some([kind |-> kind, self |-> EmojiLabelNew(text),
                                    state |-> state])]
              /\ loads' = [loads EXCEPT ![id] = @ \cup {state.segments}]
              /\ hits' = [hits EXCEPT ![id] = IF hit THEN Bump(@) ELSE @]
              /\ segRuns' = [segRuns EXCEPT ![id] = IF hit THEN @ ELSE Bump(@)]
    /\ UNCHANGED <<assets, segVars, store, label, out>>

\* if !state.is_saved { state.is_saved = true; state.clone().save(..) } and
\* the rest of the call.
CallSaveAndLayout(c) ==
    /\ calls[c] # None
    /\ LET call == calls[c][1]
           id == Id(call.self.text.text)
           state == [call.state EXCEPT !.is_saved = TRUE]
       IN  /\ store' = IF ~call.state.is_saved THEN save(store, id, state) ELSE store
           /\ out' = IF call.kind = "show"
                     THEN ShowOut(call.self, DefaultUi, state)
                     ELSE LayoutInUiOut(call.self, DefaultUi, state)
    /\ calls' = [calls EXCEPT ![c] = None]
    /\ UNCHANGED <<assets, segVars, loads, hits, segRuns, label>>

ConcNext == \E c \in 1..MaxCallers : CallLoad(c) \/ CallSaveAndLayout(c)

ConcSpec == Init /\ [][ConcNext]_vars

(***************************************************************************)
(* Properties of segment_text                                              *)
(***************************************************************************)
\* The string a segment stands for.
Content(seg) == IF seg.kind = "Text" THEN seg.rich.text ELSE seg.emoji

RECURSIVE Concat(_)
Concat(segs) ==
    IF segs = <<>> THEN <<>> ELSE Content(Head(segs)) \o Concat(Tail(segs))

IsText(seg) == seg.kind = "Text"
IsEmoji(seg) == seg.kind = "Emoji"

\* C1: concatenating, in order, the text of the Text segments and the grapheme
\* of the Emoji segments that segment_text returned gives back the input
\* string: nothing is dropped, duplicated or reordered.
C1_RoundTrip == segDone => Concat(result) = input.text

\* C1's case: a mixed input of full length was segmented into Text and Emoji.
C1_Witness ==
    /\ segDone
    /\ Len(input.text) = MaxLen
    /\ \E i, j \in 1..Len(result) : IsText(result[i]) /\ IsEmoji(result[j])

\* The reference segmentation, by maximal runs: the length of the longest
\* prefix of s without a pictogram, and the segments' kinds and contents.
RECURSIVE PlainPrefixLen(_)
PlainPrefixLen(s) ==
    IF s = <<>> \/ Head(s) \in assets THEN 0 ELSE 1 + PlainPrefixLen(Tail(s))

RECURSIVE RefShape(_)
RefShape(s) ==
    IF s = <<>> THEN <<>>
    ELSE IF Head(s) \in assets
         THEN <<<<"Emoji", <<Head(s)>>>>>> \o RefShape(Tail(s))
         ELSE LET n == PlainPrefixLen(s)
              IN  <<<<"Text", SubSeq(s, 1, n)>>>> \o RefShape(SubSeq(s, n + 1, Len(s)))

Shape(segs) == [i \in 1..Len(segs) |-> <<segs[i].kind, Content(segs[i])>>]

\* C2: segment_text agrees with the reference segmentation: one Emoji segment
\* per pictogram grapheme, one Text segment per maximal run of other
\* graphemes, in input order; so the empty input gives no segment, a
\* non-empty input gives at least one, and an input of pictograms only
\* gives Emoji segments only.
C2_MatchesReference ==
    segDone =>
        /\ Shape(result) = RefShape(input.text)
        /\ (input.text = <<>>) <=> (result = <<>>)
        /\ (\A i \in 1..Len(input.text) : input.text[i] \in assets)
              => /\ Len(result) = Len(input.text)
                 /\ \A j \in 1..Len(result) : IsEmoji(result[j])

\* C2's case: text, emoji, text was segmented into [Text, Emoji, Text].
C2_Witness ==
    /\ segDone
    /\ Len(input.text) = 3
    /\ input.text[1] \notin assets /\ input.text[2] \in assets /\ input.text[3] \notin assets
    /\ Len(result) = 3
    /\ IsText(result[1]) /\ IsEmoji(result[2]) /\ IsText(result[3])

\* C3: segment_text never returns two consecutive Text segments, nor a Text
\* segment with empty content.
C3_NoAdjacentText ==
    segDone =>
        /\ \A i \in 1..(Len(result) - 1) : ~(IsText(result[i]) /\ IsText(result[i + 1]))
        /\ \A i \in 1..Len(result) : IsText(result[i]) => result[i].rich.text # <<>>

\* C3's case: consecutive plain graphemes were coalesced into one Text segment.
C3_Witness ==
    /\ segDone
    /\ \E i \in 1..Len(result) : IsText(result[i]) /\ Len(result[i].rich.text) >= 2
    /\ \E i \in 1..Len(result) : IsEmoji(result[i])

\* C4: every Emoji segment segment_text returns holds exactly one grapheme,
\* and is_emoji is true of it; is_emoji is false of every grapheme inside a
\* Text segment.
C4_ClassifierConsistent ==
    segDone =>
        \A i \in 1..Len(result) :
            /\ IsEmoji(result[i]) =>
                  /\ Len(result[i].emoji) = 1
                  /\ is_emoji(result[i].emoji[1])
            /\ IsText(result[i]) =>
                  \A k \in 1..Len(result[i].rich.text) : ~is_emoji(result[i].rich.text[k])

\* C4's case: the result holds an Emoji segment after a Text segment, and a
\* grapheme of the emoji class without an asset went into the text.
C4_Witness ==
    /\ segDone
    /\ \E i \in 1..(Len(result) - 1) :
          /\ IsText(result[i]) /\ IsEmoji(result[i + 1])
          /\ \E k \in 1..Len(result[i].rich.text) : result[i].rich.text[k] \in Pictograms


(***************************************************************************)
(* Properties of the segment cache                                         *)
(***************************************************************************)
\* C5: all the loads made with one key, through any sequence of show and
\* layout_in_ui calls and whatever was loaded and saved under other keys in
\* between, returned the same segment sequence.
C5_LoadsAgree == \A id \in LabelTexts : Cardinality(loads[id]) <= 1

\* C5's case: a key was loaded on a miss and again from the store, another key
\* was used too, and the last call's RichText was styled unlike the stored one.
C5_Witness ==
    /\ out.call # "none"
    /\ hits[Id(out.text.text)] >= 1
    /\ \E other \in LabelTexts : other # Id(out.text.text) /\ segRuns[other] >= 1
    /\ \E i \in 1..Len(out.segments) :
          IsText(out.segments[i]) /\ out.segments[i].rich.strong # out.text.strong

\* C6: with a store that evicts nothing, segment_text runs at most once per
\* label text: the first call for a text computes and stores the segments,
\* every later call with that text is answered from the store.
C6_SegmentedOnce ==
    \A id \in LabelTexts :
        /\ segRuns[id] <= 1
        /\ (segRuns[id] = 1) <=> (store[id] # None)
        /\ hits[id] > 0 => segRuns[id] = 1
        /\ store[id] # None => store[id][1].is_saved /\ loads[id] = {store[id][1].segments}

\* C6's case: a text was segmented once, then served from the store at least
\* twice, the last time to layout_in_ui.
C6_Witness ==
    /\ out.call = "layout_in_ui"
    /\ segRuns[Id(out.text.text)] = 1
    /\ hits[Id(out.text.text)] >= 2
    /\ out.segments # <<>>

(***************************************************************************)
(* Properties of the two layout calls                                      *)
(***************************************************************************)
\* The indices 1..n that are not in skip, in increasing order.
Kept(n, skip) == SelectSeq([i \in 1..n |-> i], LAMBDA i : i \notin skip)

Indices(items) == [k \in 1..Len(items) |-> items[k].index]

RECURSIVE UnionOfRects(_)
UnionOfRects(items) ==
    IF Len(items) = 1 THEN items[1].rect
    ELSE LET a == items[1].rect
             b == UnionOfRects(Tail(items))
         IN  Rect(<<Min(a.min[1], b.min[1]), Min(a.min[2], b.min[2])>>,
                  <<Max(a.max[1], b.max[1]), Max(a.max[2], b.max[2])>>)

\* C8: the rectangle of the response show returns is the union of the
\* rectangles of the items it placed, and the empty rectangle when it placed
\* none.
C8_RectIsUnionOfPlaced ==
    out.call = "show" =>
        out.rect = IF out.placed = <<>> THEN RectZero ELSE UnionOfRects(out.placed)

(***************************************************************************)
(* Properties of the builder and of layout_in_ui's wrap policy             *)
(***************************************************************************)
\* C9: the later of wrap and truncate overrides the other: wrap(b) leaves
\* wrap = Some(b) and truncate = false, truncate(t) leaves wrap = None and
\* truncate = t, both leave text, selectable and sense alone; so no label
\* ever has wrap set and truncate true.
C9_WrapTruncateOverride ==
    /\ [](label # None => ~(label[1].wrap # None /\ label[1].truncate))
    /\ [][/\ \A w \in BOOLEAN : WrapCall(w) =>
                /\ label'[1].wrap = <<w>> /\ label'[1].truncate = FALSE
                /\ label'[1].text = label[1].text
                /\ label'[1].selectable = label[1].selectable
                /\ label'[1].sense = label[1].sense
           /\ \A t \in BOOLEAN : TruncateCall(t) =>
                /\ label'[1].wrap = <<>> /\ label'[1].truncate = t
                /\ label'[1].text = label[1].text
                /\ label'[1].selectable = label[1].selectable
                /\ label'[1].sense = label[1].sense]_vars

\* C9's case: a label with selectable and sense set, whose last of wrap and
\* truncate was wrap(true).
C9_Witness ==
    /\ label # None
    /\ label[1].wrap = <<TRUE>> /\ ~label[1].truncate
    /\ label[1].selectable # None /\ label[1].sense # None

\* C10, as claimed: truncation limits the job to the available width and one
\* row; wrap(true) without truncation limits it to the available width with
\* no row limit; with truncate false and wrap not set to true the job's
\* width is unlimited.
C10_PolicyAsClaimed ==
    out.call = "layout_in_ui" =>
        /\ out.self.truncate =>
              out.wrap.max_width = out.ui.available_width /\ out.wrap.max_rows = 1
        /\ (~out.self.truncate /\ out.self.wrap = <<TRUE>>) =>
              out.wrap.max_width = out.ui.available_width /\ out.wrap.max_rows = UsizeMax
        /\ (~out.self.truncate /\ out.self.wrap # <<TRUE>>) =>
              out.wrap.max_width = Infinity

\* C10, amended: as claimed for truncation and for wrap(true); with truncate
\* false, the width is unlimited when wrap was set to false, or was not set
\* and the Ui's wrap_text() is false; when wrap was not set and the Ui's
\* wrap_text() is true the job is limited to the available width, with no
\* row limit.
C10_PolicyWithUiDefault ==
    out.call = "layout_in_ui" =>
        /\ out.self.truncate =>
              out.wrap.max_width = out.ui.available_width /\ out.wrap.max_rows = 1
        /\ (~out.self.truncate /\ out.self.wrap = <<TRUE>>) =>
              out.wrap.max_width = out.ui.available_width /\ out.wrap.max_rows = UsizeMax
        /\ (~out.self.truncate /\ (out.self.wrap = <<FALSE>>
                                   \/ (out.self.wrap = <<>> /\ ~out.ui.wrap_text))) =>
              out.wrap.max_width = Infinity /\ out.wrap.max_rows = UsizeMax
        /\ (~out.self.truncate /\ out.self.wrap = <<>> /\ out.ui.wrap_text) =>
              out.wrap.max_width = out.ui.available_width /\ out.wrap.max_rows = UsizeMax

\* C10's case: layout_in_ui laid out a label with neither wrap nor truncate
\* set, in a Ui of finite width that wraps text.
C10_Witness ==
    /\ out.call = "layout_in_ui"
    /\ ~out.self.truncate /\ out.self.wrap = <<>>
    /\ out.ui.wrap_text /\ out.ui.available_width # Infinity
    /\ out.wrap.max_width = out.ui.available_width

(***************************************************************************)
(* Properties of the cache under interleaving and of the styles laid out   *)
(***************************************************************************)
\* C11: whatever the interleaving of the calls' loads and conditional saves,
\* every stored entry has its saved flag set, and once an entry is stored
\* under a key the segment sequence stored under that key never changes.
C11_StoredEntryCanonical ==
    /\ [](\A id \in LabelTexts : store[id] # None => store[id][1].is_saved)
    /\ [][\A id \in LabelTexts :
            store[id] # None =>
                /\ store'[id] # None
                /\ store'[id][1].segments = store[id][1].segments]_vars

\* C12: after any earlier calls on the context, the segments a call lays out
\* for a label with styled run R are segment_text(R), style attributes
\* included: every Text segment it renders carries R's style, whether the
\* state was freshly computed or read from the cache.
C12_LaidOutAsSegmented ==
    out.call # "none" =>
        /\ out.segments = segment_text(out.text)
        /\ \A k \in 1..Len(out.segments) :
              IsText(out.segments[k]) =>
                  /\ out.segments[k].rich.strong = out.text.strong
                  /\ out.segments[k].rich.italics = out.text.italics
        /\ out.call = "layout_in_ui" =>
              \A k \in 1..Len(out.sections) :
                  IsText(out.segments[k]) =>
                      /\ out.sections[k].strong = out.text.strong
                      /\ out.sections[k].italics = out.text.italics

=============================================================================
